---- MODULE Spec2Model ----
(***************************************************************************)
(* Model of the mcpk command line tool (src/main.ts): the registry file    *)
(* ~/.mcpk/running.json, the start / stop / status / list handlers, and    *)
(* the operating system's process table the handlers spawn into and signal.*)
(*                                                                         *)
(* Spec      commands run one after the other (each handler is one step).  *)
(* SpecConc  two CLI invocations run at once; a handler is split at its    *)
(*           accesses to the registry file and to the process table.       *)
(***************************************************************************)
EXTENDS Integers, Sequences, FiniteSets, TLC

\* ------------------------------------------------------------------ bounds

\* pids handed out by the operating system are 1..MaxPid, never reused
MaxPid == 3
\* the wall clock takes the values 0..MaxClock
MaxClock == 2

\* ------------------------------------------------------- JavaScript values

\* the value of process.pid when spawn failed, and of a property read that
\* finds nothing; pids are positive, so -1 is none of them
Undefined == -1

\* A server name is the sequence of its '/'-separated segments:
\* <<"alice", "demo">> is the argument alice/demo.
Names == { <<"alice", "demo">>, <<"demo">>, <<"constructor">> }

\* The properties every object parsed by JSON.parse inherits from
\* Object.prototype: servers[name] finds them when name is no own key.
ProtoNames ==
    { <<"constructor">>, <<"toString">>, <<"toLocaleString">>, <<"valueOf">>,
      <<"hasOwnProperty">>, <<"isPrototypeOf">>, <<"propertyIsEnumerable">>,
      <<"__proto__">>, <<"__defineGetter__">>, <<"__defineSetter__">>,
      <<"__lookupGetter__">>, <<"__lookupSetter__">> }

\* mutant of Has: the test reads the record's pid, if (servers[name]?.pid)
HasOwnPid(servers, n) ==
    /\ n \in DOMAIN servers
    /\ "pid" \in DOMAIN servers[n]
    /\ servers[n].pid # Undefined

\* if (servers[serverName]): a stored record is an object, hence truthy, and
\* so is every inherited property
Has(servers, n) == n \in DOMAIN servers \/ n \in ProtoNames

\* servers[serverName].pid: the stored pid, undefined when the record has no
\* pid property or when servers[serverName] is an inherited property
PidOf(servers, n) ==
    IF n \in DOMAIN servers /\ "pid" \in DOMAIN servers[n]
    THEN servers[n].pid
    ELSE Undefined

\* new Date().toISOString() of the clock value t
ToISOString(t) == <<"ISO-8601", t>>

\* fetchServerInfo: const [scope, name] = serverName.split('/')
fetchServerInfo(n) ==
    [ name        |-> n,
      command     |-> "npx",
      args        |-> <<"-y", n>>,
      description |-> <<"MCP Server for ", IF Len(n) >= 2 THEN n[2] ELSE "undefined">>,
      version     |-> "1.0.0" ]

\* ------------------------------------------------------------ registry file

\* mutant of StringifyRecord: a replacer that keeps pid and startTime only
StringifyRecordNoInfo(r) ==
    [ k \in { x \in DOMAIN r \ {"info"} : ~(x = "pid" /\ r[x] = Undefined) } |-> r[k] ]

\* JSON.stringify of one record: a property whose value is undefined is left
\* out of the text
StringifyRecord(r) ==
    [ k \in { x \in DOMAIN r : ~(x = "pid" /\ r[x] = Undefined) } |-> r[k] ]

\* JSON.stringify(servers, null, 2): the text of the registry file
Stringify(servers) ==
    [ indent |-> 2,
      value  |-> [ n \in DOMAIN servers |-> StringifyRecord(servers[n]) ] ]

\* JSON.parse: the object the text denotes; the layout is dropped
Parse(text) == text.value

\* mutant of WriteFile: the write merges the new mapping into the one the
\* file holds, instead of replacing it
WriteFileMerging(old, text) ==
    [ indent |-> 2,
      value  |-> [ n \in DOMAIN old.value \cup DOMAIN text.value |->
                     IF n \in DOMAIN text.value THEN text.value[n] ELSE old.value[n] ] ]

\* what fs.writeFileSync leaves in the file that held `old`: the new text,
\* nothing of the old
WriteFile(old, text) == text

\* mutant of Delete: the delete is forgotten
DeleteNothing(servers, n) == servers

\* the mapping without the key n (delete servers[serverName])
Delete(servers, n) == [ m \in DOMAIN servers \ {n} |-> servers[m] ]

\* mutant of Put: start saves the new record alone, { [serverName]: record }
PutAlone(servers, n, r) == [ m \in {n} |-> r ]

\* the mapping with servers[n] = r
Put(servers, n, r) ==
    [ m \in DOMAIN servers \cup {n} |-> IF m = n THEN r ELSE servers[m] ]

\* ------------------------------------------------------------------- state

VARIABLES
    file,       \* text of ~/.mcpk/running.json
    alive,      \* pids of the live processes the tool has spawned
    nextPid,    \* the pid the operating system hands out next
    clock,      \* wall clock
    argv,       \* the command line of the (last) invocation
    servers,    \* the handler's local `servers` object
    stdout,     \* what the invocation printed, line by line
    exit,       \* how the invocation ended: "ok" or "uncaught"
    wrote,      \* whether the invocation called saveRunningServers
    spawned,    \* whether the invocation called spawn
    signalled,  \* pids the invocation delivered a signal to
    pc          \* SpecConc: where each invocation stands

vars == << file, alive, nextPid, clock, argv, servers, stdout, exit, wrote,
           spawned, signalled, pc >>

\* the registry the next command will load
Registry == Parse(file)

\* ------------------------------------------------------------ printed lines

AlreadyRunning(n, pid) == [ msg |-> "already running", name |-> n, pid |-> pid ]
Fetching(n)            == [ msg |-> "fetching", name |-> n ]
Starting(n)            == [ msg |-> "starting", name |-> n ]
Started(n, pid)        == [ msg |-> "started successfully", name |-> n, pid |-> pid ]
NotRunning(n)          == [ msg |-> "is not running", name |-> n ]
Stopped(n)             == [ msg |-> "stopped successfully", name |-> n ]
FailedToStop(n, err)   == [ msg |-> "failed to stop", name |-> n, err |-> err ]
NoServers              == [ msg |-> "no servers running" ]
ListHeader             == [ msg |-> "Running MCP Servers:" ]
ListRule               == [ msg |-> "-------------------" ]
ListEntry(n, pid)      == [ msg |-> "entry", name |-> n, pid |-> pid ]
StatusField(k, v)      == [ msg |-> "status", field |-> k, value |-> v ]

\* ------------------------------------------------------- operating system

\* spawn(command, args, {detached}): "ok" gives the child a fresh pid;
\* "ENOENT" (npx not on the PATH) leaves process.pid undefined and the
\* 'error' event, which has no listener, ends the CLI after the handler ran
SpawnOutcomes == { "ok", "ENOENT" }

\* mutant of KillResults: a process that is gone counts as stopped (ESRCH is
\* swallowed)
KillResultsGoneIsOk(pid, live) ==
    IF pid = Undefined THEN { "ERR_INVALID_ARG_TYPE" }
    ELSE IF pid \notin live THEN { "ok" }
    ELSE { "ok", "EPERM" }

\* process.kill(pid): what the call does for the stored pid
\*   "ERR_INVALID_ARG_TYPE"  pid is not a number: thrown before any signal
\*   "ESRCH"                 no such process
\*   "EPERM"                 the process is not the caller's to signal
\*   "ok"                    SIGTERM delivered
KillResults(pid, live) ==
    IF pid = Undefined THEN { "ERR_INVALID_ARG_TYPE" }
    ELSE IF pid \notin live THEN { "ESRCH" }
    ELSE { "ok", "EPERM" }

\* the record start stores: { pid: process.pid, startTime, info: serverInfo }
NewRecord(n, pid, now) ==
    [ pid |-> pid, startTime |-> ToISOString(now), info |-> fetchServerInfo(n) ]

\* the pid the spawn call leaves in process.pid
SpawnedPid(out) == IF out = "ok" THEN nextPid ELSE Undefined

\* Object.keys(servers) as a sequence. The model keeps the registry as a
\* mapping, not in insertion order, so the order here is an arbitrary fixed one.
RECURSIVE KeysOf(_)
KeysOf(S) ==
    IF S = {} THEN <<>>
    ELSE LET n == CHOOSE x \in S : TRUE IN <<n>> \o KeysOf(S \ {n})

\* mutant of ListLines: the loop starts at the second name
ListLinesSkipFirst(loaded) ==
    LET serverNames == KeysOf(DOMAIN loaded) IN
    IF Len(serverNames) = 0
    THEN << NoServers >>
    ELSE << ListHeader, ListRule >> \o
         [ i \in 1..(Len(serverNames) - 1) |->
             ListEntry(serverNames[i + 1], PidOf(loaded, serverNames[i + 1])) ]

\* the lines list prints for the loaded registry
ListLines(loaded) ==
    LET serverNames == KeysOf(DOMAIN loaded) IN
    IF Len(serverNames) = 0
    THEN << NoServers >>
    ELSE << ListHeader, ListRule >> \o
         [ i \in 1..Len(serverNames) |->
             ListEntry(serverNames[i], PidOf(loaded, serverNames[i])) ]

\* the lines status prints for the loaded registry. For a stored record the
\* two configuration snippets follow, text computed from server.info alone.
\* For an inherited property server.info is undefined and reading
\* server.info.description throws after the first four lines.
StatusLines(loaded, n) ==
    IF ~Has(loaded, n)
    THEN << NotRunning(n) >>
    ELSE << StatusField("Server", n),
            StatusField("Status", << "Running" >>),
            StatusField("PID", PidOf(loaded, n)),
            StatusField("Started",
                IF n \in DOMAIN loaded THEN loaded[n].startTime ELSE << "undefined" >>) >>
         \o IF n \in DOMAIN loaded
            THEN << StatusField("Description", loaded[n].info.description),
                    StatusField("Version", << loaded[n].info.version >>) >>
            ELSE << >>

\* how status ends: the TypeError above is caught by nobody
StatusExit(loaded, n) ==
    IF Has(loaded, n) /\ n \notin DOMAIN loaded THEN "uncaught" ELSE "ok"

\* mutant of StopResult: the delete and the save are done after the try
\* block, whether process.kill threw or not
StopResultDeleteAlways(loaded, n, res) ==
    [ servers |-> Delete(loaded, n), wrote |-> TRUE,
      stdout  |-> IF res = "ok" THEN << Stopped(n) >> ELSE << FailedToStop(n, res) >> ]

\* stop's try { process.kill; delete; save; print } catch { print }: the
\* mapping the handler is left with, whether it saved it, and what it printed
StopResult(loaded, n, res) ==
    IF res = "ok"
    THEN [ servers |-> Delete(loaded, n), wrote |-> TRUE,
           stdout  |-> << Stopped(n) >> ]
    ELSE [ servers |-> loaded, wrote |-> FALSE,
           stdout  |-> << FailedToStop(n, res) >> ]

\* ------------------------------------------- commands, one after the other

Init ==
    /\ file = Stringify(<<>>)
    /\ alive = {}
    /\ nextPid = 1
    /\ clock = 0
    /\ argv = <<>>
    /\ servers = <<>>
    /\ stdout = <<>>
    /\ exit = "ok"
    /\ wrote = FALSE
    /\ spawned = FALSE
    /\ signalled = {}
    /\ pc = <<>>

\* mcpk start <serverName>
Start(n) ==
    LET loaded == Parse(file) IN
    /\ argv' = << "start", n >>
    /\ IF Has(loaded, n)
       THEN /\ stdout' = << AlreadyRunning(n, PidOf(loaded, n)) >>
            /\ servers' = loaded
            /\ exit' = "ok"
            /\ wrote' = FALSE
            /\ spawned' = FALSE
            /\ UNCHANGED << file, alive, nextPid, clock >>
       ELSE \E out \in SpawnOutcomes, now \in clock..MaxClock :
            LET pid == SpawnedPid(out) IN
            /\ out = "ok" => nextPid <= MaxPid
            /\ alive' = IF out = "ok" THEN alive \cup {pid} ELSE alive
            /\ nextPid' = IF out = "ok" THEN nextPid + 1 ELSE nextPid
            /\ clock' = now
            /\ servers' = Put(loaded, n, NewRecord(n, pid, now))
            /\ file' = WriteFile(file, Stringify(servers'))
            /\ stdout' = << Fetching(n), Starting(n), Started(n, pid) >>
            /\ exit' = IF out = "ok" THEN "ok" ELSE "uncaught"
            /\ wrote' = TRUE
            /\ spawned' = TRUE
    /\ signalled' = {}
    /\ UNCHANGED pc

\* mcpk stop <serverName>
Stop(n) ==
    LET loaded == Parse(file) IN
    /\ argv' = << "stop", n >>
    /\ IF ~Has(loaded, n)
       THEN /\ stdout' = << NotRunning(n) >>
            /\ servers' = loaded
            /\ wrote' = FALSE
            /\ signalled' = {}
            /\ UNCHANGED << file, alive >>
       ELSE \E res \in KillResults(PidOf(loaded, n), alive) :
            LET r == StopResult(loaded, n, res) IN
            /\ signalled' = IF res = "ok" THEN { PidOf(loaded, n) } ELSE {}
            /\ alive' = alive \ signalled'
            /\ servers' = r.servers
            /\ wrote' = r.wrote
            /\ file' = IF r.wrote THEN WriteFile(file, Stringify(r.servers)) ELSE file
            /\ stdout' = r.stdout
    /\ exit' = "ok"
    /\ spawned' = FALSE
    /\ UNCHANGED << nextPid, clock, pc >>

\* mcpk status <serverName>
Status(n) ==
    LET loaded == Parse(file) IN
    /\ argv' = << "status", n >>
    /\ servers' = loaded
    /\ stdout' = StatusLines(loaded, n)
    /\ exit' = StatusExit(loaded, n)
    /\ wrote' = FALSE
    /\ spawned' = FALSE
    /\ signalled' = {}
    /\ UNCHANGED << file, alive, nextPid, clock, pc >>

\* mcpk list
List ==
    LET loaded == Parse(file) IN
    /\ argv' = << "list" >>
    /\ servers' = loaded
    /\ stdout' = ListLines(loaded)
    /\ exit' = "ok"
    /\ wrote' = FALSE
    /\ spawned' = FALSE
    /\ signalled' = {}
    /\ UNCHANGED << file, alive, nextPid, clock, pc >>

\* a spawned server exits on its own; the tool is not told
ProcessExit(pid) ==
    /\ pid \in alive
    /\ alive' = alive \ {pid}
    /\ UNCHANGED << file, nextPid, clock, argv, servers, stdout, exit, wrote,
                    spawned, signalled, pc >>

Next ==
    \/ \E n \in Names : Start(n)
    \/ \E n \in Names : Stop(n)
    \/ \E n \in Names : Status(n)
    \/ List
    \/ \E pid \in 1..MaxPid : ProcessExit(pid)

Spec == Init /\ [][Next]_vars

\* ------------------------------------------------- invocations run at once

\* the CLI invocations that run at the same time, each in its own process
Procs == { 1, 2 }

\* Every variable of an invocation is kept per process; each process runs one
\* command. pc[p] is
\*   "ready"  the command has not begun
\*   "spawn"  start has loaded the registry and found the name absent
\*   "kill"   stop has loaded the registry and found the name
\*   "save"   the handler has changed its `servers` and is about to save it
\*   "done"   the handler has returned
\* The invocations find the registry empty, or as an earlier start of one
\* name has left it (pid 1, clock 0), that server running or already gone.
InitConc ==
    /\ \/ /\ file = Stringify(<<>>)
          /\ alive = {}
          /\ nextPid = 1
       \/ \E n \in Names \ ProtoNames, live \in { {}, {1} } :
          /\ file = Stringify(Put(<<>>, n, NewRecord(n, 1, 0)))
          /\ alive = live
          /\ nextPid = 2
    /\ clock = 0
    /\ argv = [ p \in Procs |-> <<>> ]
    /\ servers = [ p \in Procs |-> <<>> ]
    /\ stdout = [ p \in Procs |-> <<>> ]
    /\ exit = [ p \in Procs |-> "ok" ]
    /\ wrote = [ p \in Procs |-> FALSE ]
    /\ spawned = [ p \in Procs |-> FALSE ]
    /\ signalled = [ p \in Procs |-> {} ]
    /\ pc = [ p \in Procs |-> "ready" ]

\* start, up to const servers = getRunningServers() and the test of the name
LoadForStart(p, n) ==
    LET loaded == Parse(file) IN
    /\ pc[p] = "ready"
    /\ argv' = [ argv EXCEPT ![p] = << "start", n >> ]
    /\ servers' = [ servers EXCEPT ![p] = loaded ]
    /\ stdout' = [ stdout EXCEPT ![p] =
                     IF Has(loaded, n)
                     THEN << AlreadyRunning(n, PidOf(loaded, n)) >>
                     ELSE << Fetching(n), Starting(n) >> ]
    /\ pc' = [ pc EXCEPT ![p] = IF Has(loaded, n) THEN "done" ELSE "spawn" ]
    /\ exit' = [ exit EXCEPT ![p] = "ok" ]
    /\ wrote' = [ wrote EXCEPT ![p] = FALSE ]
    /\ spawned' = [ spawned EXCEPT ![p] = FALSE ]
    /\ signalled' = [ signalled EXCEPT ![p] = {} ]
    /\ UNCHANGED << file, alive, nextPid, clock >>

\* start, from spawn to servers[serverName] = { pid, startTime, info }
SpawnServer(p) ==
    /\ pc[p] = "spawn"
    /\ \E out \in SpawnOutcomes, now \in clock..MaxClock :
        LET pid == SpawnedPid(out) IN
        /\ out = "ok" => nextPid <= MaxPid
        /\ alive' = IF out = "ok" THEN alive \cup {pid} ELSE alive
        /\ nextPid' = IF out = "ok" THEN nextPid + 1 ELSE nextPid
        /\ clock' = now
        /\ servers' = [ servers EXCEPT ![p] =
                          Put(servers[p], argv[p][2], NewRecord(argv[p][2], pid, now)) ]
        /\ exit' = [ exit EXCEPT ![p] = IF out = "ok" THEN "ok" ELSE "uncaught" ]
    /\ spawned' = [ spawned EXCEPT ![p] = TRUE ]
    /\ pc' = [ pc EXCEPT ![p] = "save" ]
    /\ UNCHANGED << file, argv, stdout, wrote, signalled >>

\* stop, up to const servers = getRunningServers() and the test of the name
LoadForStop(p, n) ==
    LET loaded == Parse(file) IN
    /\ pc[p] = "ready"
    /\ argv' = [ argv EXCEPT ![p] = << "stop", n >> ]
    /\ servers' = [ servers EXCEPT ![p] = loaded ]
    /\ stdout' = [ stdout EXCEPT ![p] =
                     IF Has(loaded, n) THEN << >> ELSE << NotRunning(n) >> ]
    /\ pc' = [ pc EXCEPT ![p] = IF Has(loaded, n) THEN "kill" ELSE "done" ]
    /\ exit' = [ exit EXCEPT ![p] = "ok" ]
    /\ wrote' = [ wrote EXCEPT ![p] = FALSE ]
    /\ spawned' = [ spawned EXCEPT ![p] = FALSE ]
    /\ signalled' = [ signalled EXCEPT ![p] = {} ]
    /\ UNCHANGED << file, alive, nextPid, clock >>

\* stop, process.kill(servers[serverName].pid) and, when it returns, the
\* delete; when it throws, the catch block
KillServer(p) ==
    LET n == argv[p][2] IN
    /\ pc[p] = "kill"
    /\ \E res \in KillResults(PidOf(servers[p], n), alive) :
        LET r == StopResult(servers[p], n, res) IN
        /\ signalled' = [ signalled EXCEPT ![p] =
                            IF res = "ok" THEN { PidOf(servers[p], n) } ELSE {} ]
        /\ alive' = alive \ signalled'[p]
        /\ servers' = [ servers EXCEPT ![p] = r.servers ]
        /\ stdout' = [ stdout EXCEPT ![p] = IF r.wrote THEN << >> ELSE r.stdout ]
        /\ pc' = [ pc EXCEPT ![p] = IF r.wrote THEN "save" ELSE "done" ]
    /\ UNCHANGED << file, nextPid, clock, argv, exit, wrote, spawned >>

\* saveRunningServers(servers) and the line printed after it
Save(p) ==
    LET n == argv[p][2] IN
    /\ pc[p] = "save"
    /\ file' = WriteFile(file, Stringify(servers[p]))
    /\ wrote' = [ wrote EXCEPT ![p] = TRUE ]
    /\ stdout' = [ stdout EXCEPT ![p] =
                     IF argv[p][1] = "start"
                     THEN stdout[p] \o << Started(n, PidOf(servers[p], n)) >>
                     ELSE << Stopped(n) >> ]
    /\ pc' = [ pc EXCEPT ![p] = "done" ]
    /\ UNCHANGED << alive, nextPid, clock, argv, servers, exit, spawned, signalled >>

NextConc ==
    \/ \E p \in Procs, n \in Names : LoadForStart(p, n)
    \/ \E p \in Procs : SpawnServer(p)
    \/ \E p \in Procs, n \in Names : LoadForStop(p, n)
    \/ \E p \in Procs : KillServer(p)
    \/ \E p \in Procs : Save(p)
    \/ \E pid \in 1..MaxPid : ProcessExit(pid)

SpecConc == InitConc /\ [][NextConc]_vars

\* ==================================================================== claims

\* the pids the operating system has handed out
Pids == 1..MaxPid

\* C1: start of a name that is no key of the registry, once completed, leaves
\* the registry with exactly one more entry, keyed by that name and carrying
\* a pid, a start time and the resolved info; the other entries are as they
\* were, and list then prints a line for the name.
C1_StartAbsentAddsEntry ==
    [][ \A n \in Names :
          (Start(n) /\ n \notin DOMAIN Registry /\ exit' = "ok") =>
             /\ DOMAIN Registry' = DOMAIN Registry \cup {n}
             /\ \A m \in DOMAIN Registry : Registry'[m] = Registry[m]
             /\ DOMAIN Registry'[n] = { "pid", "startTime", "info" }
             /\ Registry'[n].pid \in Pids
             /\ Registry'[n].info = fetchServerInfo(n)
             /\ \E i \in 1..Len(ListLines(Registry')) :
                   ListLines(Registry')[i] = ListEntry(n, Registry'[n].pid)
      ]_vars

\* C1 for the names Object.prototype does not define: the same statement holds.
C1_ForOwnNames ==
    [][ \A n \in Names \ ProtoNames :
          (Start(n) /\ n \notin DOMAIN Registry /\ exit' = "ok") =>
             /\ DOMAIN Registry' = DOMAIN Registry \cup {n}
             /\ \A m \in DOMAIN Registry : Registry'[m] = Registry[m]
             /\ DOMAIN Registry'[n] = { "pid", "startTime", "info" }
             /\ Registry'[n].pid \in Pids
             /\ Registry'[n].info = fetchServerInfo(n)
             /\ \E i \in 1..Len(ListLines(Registry')) :
                   ListLines(Registry')[i] = ListEntry(n, Registry'[n].pid)
      ]_vars

\* C2: start of a name that is a key of the registry spawns nothing, does not
\* write the file, leaves its content as it was, and prints the
\* already-running message with the pid stored for the name.
C2_StartPresentIsNoOp ==
    [][ \A n \in Names :
          (Start(n) /\ n \in DOMAIN Registry) =>
             /\ ~spawned'
             /\ ~wrote'
             /\ file' = file
             /\ alive' = alive /\ nextPid' = nextPid
             /\ Len(stdout') = 1
             /\ stdout'[1].msg = "already running"
             /\ stdout'[1].name = n
             /\ stdout'[1].pid = PidOf(Registry, n)
      ]_vars

C2_Witness ==
    \E n \in Names :
        /\ argv = << "start", n >>
        /\ n \in DOMAIN Registry
        /\ ~wrote /\ ~spawned
        /\ stdout[1].msg = "already running"
        /\ stdout[1].pid \in Pids

\* C3: when stop of a present name delivers the signal to the stored pid,
\* exactly that name's entry leaves the registry, the others are as they
\* were, and a status of the name run next prints the not-running message.
C3_StopRemovesEntry ==
    [][ \A n \in Names :
          /\ (Stop(n) /\ n \in DOMAIN Registry /\ signalled' # {}) =>
                /\ signalled' = { PidOf(Registry, n) }
                /\ DOMAIN Registry' = DOMAIN Registry \ {n}
                /\ \A m \in DOMAIN Registry' : Registry'[m] = Registry[m]
          /\ (argv = << "stop", n >> /\ signalled # {} /\ Status(n)) =>
                /\ stdout' = << NotRunning(n) >>
                /\ exit' = "ok"
      ]_vars

\* a stop that signalled its pid, with another entry left in the registry
C3_Witness ==
    \E n \in Names :
        /\ argv = << "stop", n >>
        /\ signalled # {} /\ signalled \subseteq Pids
        /\ stdout = << Stopped(n) >>
        /\ wrote
        /\ n \notin DOMAIN Registry
        /\ DOMAIN Registry # {}

\* C4: stop of a name that is no key of the registry signals no process,
\* leaves the file as it was and prints the not-running message.
C4_StopAbsentNotRunning ==
    [][ \A n \in Names :
          (Stop(n) /\ n \notin DOMAIN Registry) =>
             /\ signalled' = {}
             /\ file' = file
             /\ stdout' = << NotRunning(n) >>
      ]_vars

\* C4 for the names Object.prototype does not define: the same statement holds.
C4_ForOwnNames ==
    [][ \A n \in Names \ ProtoNames :
          (Stop(n) /\ n \notin DOMAIN Registry) =>
             /\ signalled' = {}
             /\ file' = file
             /\ stdout' = << NotRunning(n) >>
      ]_vars

\* C5: when stop of a present name fails to signal the stored pid, the error
\* is caught: one failure line is printed, the command ends normally, the
\* file is not written and the registry is as it was.
C5_FailedStopKeepsEntry ==
    [][ \A n \in Names :
          (Stop(n) /\ n \in DOMAIN Registry /\ signalled' = {}) =>
             /\ Len(stdout') = 1
             /\ stdout'[1].msg = "failed to stop"
             /\ stdout'[1].name = n
             /\ exit' = "ok"
             /\ ~wrote'
             /\ file' = file
             /\ n \in DOMAIN Registry' /\ Registry'[n] = Registry[n]
             /\ alive' = alive
      ]_vars

\* a stop that failed on a process already gone, the entry still there
C5_Witness ==
    \E n \in Names :
        /\ argv = << "stop", n >>
        /\ stdout = << FailedToStop(n, "ESRCH") >>
        /\ n \in DOMAIN Registry
        /\ PidOf(Registry, n) \in Pids \ alive

\* C6 as stated: list prints the empty-state message alone for an empty
\* registry, and for N >= 1 entries exactly N lines, one per name, each with
\* the name's stored pid.
C6_ListPrintsNLines ==
    argv = << "list" >> =>
        IF DOMAIN servers = {}
        THEN stdout = << NoServers >>
        ELSE /\ Len(stdout) = Cardinality(DOMAIN servers)
             /\ \A n \in DOMAIN servers :
                   \E i \in 1..Len(stdout) : stdout[i] = ListEntry(n, PidOf(servers, n))

\* C6 amended: for N >= 1 entries list prints the two heading lines and then
\* exactly N lines, one per name, each with the name's stored pid.
C6_ListPrintsHeadingAndNLines ==
    argv = << "list" >> =>
        IF DOMAIN servers = {}
        THEN stdout = << NoServers >>
        ELSE /\ Len(stdout) = Cardinality(DOMAIN servers) + 2
             /\ stdout[1] = ListHeader
             /\ stdout[2] = ListRule
             /\ \A i \in 3..Len(stdout) :
                   /\ stdout[i].msg = "entry"
                   /\ stdout[i].name \in DOMAIN servers
                   /\ stdout[i].pid = PidOf(servers, stdout[i].name)
             /\ \A n \in DOMAIN servers :
                   Cardinality({ i \in 3..Len(stdout) : stdout[i].name = n }) = 1

\* a list of two servers with different pids
C6_Witness ==
    /\ argv = << "list" >>
    /\ Cardinality(DOMAIN servers) = 2
    /\ Len(stdout) = 4
    /\ stdout[3].pid \in Pids
    /\ stdout[4].pid \in Pids

C9_Lifecycle ==
    [][ /\ Registry' # Registry =>
             \E n \in Names :
                 \/ /\ Start(n) /\ n \notin DOMAIN Registry
                    /\ DOMAIN Registry' = DOMAIN Registry \cup {n}
                 \/ /\ Stop(n) /\ n \in DOMAIN Registry
                    /\ signalled' = { PidOf(Registry, n) }
                    /\ DOMAIN Registry' = DOMAIN Registry \ {n}
        /\ \A n \in DOMAIN Registry \cap DOMAIN Registry' :
              Registry'[n] = Registry[n]
        /\ \A n \in Names :
              \/ Status(n)
              \/ List
              \/ Start(n) /\ n \in DOMAIN Registry
              \/ Stop(n) /\ (n \notin DOMAIN Registry \/ signalled' = {})
              => (~wrote' /\ file' = file)
      ]_vars

\* a status that wrote nothing, run when the second pid handed out is the
\* only record: the first record was created and deleted, this one created
C9_Witness ==
    \E n \in Names :
        /\ argv = << "status", n >>
        /\ ~wrote
        /\ DOMAIN Registry = {n}
        /\ PidOf(Registry, n) = 2
        /\ nextPid = 3

\* C10: pids are not reused. Once the process recorded for a name is gone
\* while its entry is still there, every step keeps the entry as it is and
\* spawns nothing for the name: stop of it fails, start of it prints
\* already-running, status and list print it as running.
C10_StaleEntryStays ==
    [][ \A n \in DOMAIN Registry :
          (PidOf(Registry, n) \in Pids \ alive) =>
             /\ n \in DOMAIN Registry'
             /\ Registry'[n] = Registry[n]
             /\ PidOf(Registry, n) \notin alive'
             /\ Stop(n) => /\ stdout' = << FailedToStop(n, "ESRCH") >>
                           /\ signalled' = {}
             /\ Start(n) => /\ stdout' = << AlreadyRunning(n, PidOf(Registry, n)) >>
                            /\ ~spawned'
             /\ Status(n) => stdout'[2] = StatusField("Status", << "Running" >>)
             /\ List => \E i \in 1..Len(stdout') :
                            stdout'[i] = ListEntry(n, PidOf(Registry, n))
      ]_vars

\* a stop of a name whose process had exited on its own
C10_Witness ==
    \E n \in Names :
        /\ n \in DOMAIN Registry
        /\ PidOf(Registry, n) \in Pids \ alive
        /\ argv = << "stop", n >>
        /\ stdout = << FailedToStop(n, "ESRCH") >>
        /\ alive # {}

\* C8: nothing orders the load and the save of two invocations, and a save
\* replaces the file. Whenever an invocation has saved, the file holds the
\* mapping of one of them alone; so when two starts of different names have
\* both spawned, saved and printed success without either having loaded the
\* other's record, the file holds only one of the two records.
C8_LastWriterWins ==
    /\ (\E p \in Procs : wrote[p]) =>
          \E p \in Procs :
              /\ wrote[p]
              /\ DOMAIN Registry = DOMAIN servers[p]
              /\ \A n \in DOMAIN Registry :
                    PidOf(Registry, n) = PidOf(servers[p], n)
    /\ \A p, q \in Procs :
          ( /\ p # q
            /\ pc[p] = "done" /\ pc[q] = "done"
            /\ wrote[p] /\ wrote[q]
            /\ argv[p][1] = "start" /\ argv[q][1] = "start"
            /\ argv[p][2] # argv[q][2]
            /\ argv[q][2] \notin DOMAIN servers[p]
            /\ argv[p][2] \notin DOMAIN servers[q] )
          => ~({ argv[p][2], argv[q][2] } \subseteq DOMAIN Registry)

\* two starts of different absent names, both spawned with a pid, both saved,
\* both printed success; the file holds the second name's record only
C8_Witness ==
    \E a, b \in Names :
        /\ a # b
        /\ pc[1] = "done" /\ pc[2] = "done"
        /\ argv[1] = << "start", a >> /\ argv[2] = << "start", b >>
        /\ spawned[1] /\ spawned[2]
        /\ wrote[1] /\ wrote[2]
        /\ exit[1] = "ok" /\ exit[2] = "ok"
        /\ stdout[1][3] = Started(a, PidOf(servers[1], a))
        /\ stdout[2][3] = Started(b, PidOf(servers[2], b))
        /\ PidOf(servers[1], a) \in alive
        /\ PidOf(servers[2], b) \in alive
        /\ DOMAIN Registry = {b}

====
